---- MODULE Spec2Model ----
(***************************************************************************)
(* Model of the job queue of app.py (Flask + SQLAlchemy): the jobs table   *)
(* and the handlers create_job, claim_job, job_progress, job_complete and  *)
(* job_fail, run by concurrent request threads against one shared store.   *)
(*                                                                         *)
(* A handler that reads a row through the ORM session and later commits    *)
(* is two steps (the read, the flush+commit); the flush writes only the    *)
(* columns whose in-memory value differs from the loaded one, which is     *)
(* how db.session.commit() builds its UPDATE.  claim_job on the            *)
(* postgresql/cockroachdb branch is three steps: SELECT ... FOR UPDATE     *)
(* SKIP LOCKED (takes the row lock), the UPDATE and the ORM read-back on   *)
(* the session's own connection, and the commit at the end of the          *)
(* `with engine.begin()` block.                                            *)
(*                                                                         *)
(* Columns no handler ever reads or branches on (owner, max_retries,       *)
(* updated_at) are left out of the row; the videos table, the auth         *)
(* decorators and the log file are outside the model.                      *)
(***************************************************************************)
EXTENDS Integers, Sequences, FiniteSets, Bags, TLC

VARIABLES
    dialect,    \* engine.dialect.name, fixed at start-up
    jobs,       \* the committed jobs table: jobs[i] is the row with id i
    pc,         \* pc[w]: where request thread w stands in its handler
    req,        \* req[w]: the request w is serving (message: that of job_progress)
    orm,        \* orm[w]: the row w loaded and its in-memory (dirty) copy
    last,       \* the last response sent, with the op and queue of its request
    handed,     \* history: the bag of job ids sent in 200 responses of claim_job
    ncalls      \* history: ncalls[q] claim requests received for queue q,
                \* ncalls[NULL] other requests

vars == <<dialect, jobs, pc, req, orm, last, handed, ncalls>>

----------------------------------------------------------------------------
(* Bounds of the model *)

MaxJobs == 2        \* rows the table may hold
MaxCalls == 2       \* requests served in one behaviour

(* Inputs *)

Workers == {"w1", "w2"}
Queues == {"render", "solicitacao"}
Dialects == {"postgresql", "sqlite"}
PgDialects == {"postgresql", "cockroachdb"}
ProgressInputs == {40, 150, -5}
Messages == {"halfway"}
ErrorInputs == {"x"}

NULL == "NULL"      \* None / SQL NULL

----------------------------------------------------------------------------
(* JSON values of the result column.  isnull: the column is NULL; keys:    *)
(* the keys present in the dict.                                           *)

NoResult == [isnull |-> TRUE, keys |-> {}, out |-> NULL, error |-> NULL, logs |-> <<>>]
EmptyDict == [isnull |-> FALSE, keys |-> {}, out |-> NULL, error |-> NULL, logs |-> <<>>]
OutDict == [isnull |-> FALSE, keys |-> {"out"}, out |-> "file.mp4", error |-> NULL, logs |-> <<>>]
ErrorDict(e) == [isnull |-> FALSE, keys |-> {"error"}, out |-> NULL, error |-> e, logs |-> <<>>]
ResultInputs == {EmptyDict, OutDict}

\* Python truthiness of job.result: None and {} are falsy
Truthy(r) == ~r.isnull /\ r.keys # {}

----------------------------------------------------------------------------
(* Rows *)

JobMutantAttemptsOne(id, queue, payload, now) ==
    [id |-> id, queue |-> queue, payload |-> payload, status |-> "pending",
     progress |-> 0, result |-> NoResult, attempts |-> 1, worker_id |-> NULL,
     created_at |-> now]
Job(id, queue, payload, now) ==
    [id |-> id, queue |-> queue, payload |-> payload, status |-> "pending",
     progress |-> 0, result |-> NoResult, attempts |-> 0, worker_id |-> NULL,
     created_at |-> now]

NoJob == [id |-> 0, queue |-> NULL, payload |-> NULL, status |-> NULL,
          progress |-> 0, result |-> NoResult, attempts |-> 0, worker_id |-> NULL,
          created_at |-> 0]

Columns == {"id", "queue", "payload", "status", "progress", "result",
            "attempts", "worker_id", "created_at"}

Ids == 1..Len(jobs)

\* datetime.utcnow() at the insert: not before the newest row's created_at,
\* and equal to it when the clock has not advanced in between
Now == IF Len(jobs) = 0 THEN 0 ELSE jobs[Len(jobs)].created_at

to_dict(row) == row

NoReq == [op |-> "none", queue |-> NULL, job_id |-> 0, message |-> <<>>]
NoOrm == [loaded |-> NoJob, cur |-> NoJob]
NoResp == [op |-> "none", queue |-> NULL, code |-> 0, id |-> 0, job |-> NoJob]
Response(code, id, job) == [code |-> code, id |-> id, job |-> job]

----------------------------------------------------------------------------
(* Row locks of the open claim transactions (postgresql branch): a row is  *)
(* locked from the SELECT ... FOR UPDATE to the commit.                    *)

PgStates == {"claim_locked", "claim_loaded"}
Locked(j) == \E w \in Workers : pc[w] \in PgStates /\ req[w].job_id = j

\* SKIP LOCKED: the rows the SELECT passes over
LockedRowsMutantNone == {}
LockedRows == {j \in Ids : Locked(j)}

\* db.session.commit(): UPDATE jobs SET <changed columns> WHERE id = :id
Flush(row, loaded, cur) ==
    [c \in Columns |-> IF cur[c] # loaded[c] THEN cur[c] ELSE row[c]]

\* WHERE queue = :queue AND status = 'pending', rows in `skip` left out
PendingMutantAnyStatus(queue, skip) ==
    {j \in Ids : jobs[j].queue = queue /\ j \notin skip}
PendingMutantAnyQueue(queue, skip) ==
    {j \in Ids : jobs[j].status = "pending" /\ j \notin skip}
Pending(queue, skip) ==
    {j \in Ids : jobs[j].queue = queue /\ jobs[j].status = "pending" /\ j \notin skip}

\* ORDER BY created_at ASC LIMIT 1: a row no other candidate is older than
OldestMutantNewest(S) == {j \in S : \A k \in S : jobs[j].created_at >= jobs[k].created_at}
Oldest(S) == {j \in S : \A k \in S : jobs[j].created_at <= jobs[k].created_at}

\* An optional request field: <<>> when absent (None), <<v>> when given
Opt(S) == {<<>>} \cup {<<v>> : v \in S}

RECURSIVE Total(_, _)
Total(f, S) == IF S = {} THEN 0 ELSE LET x == CHOOSE y \in S : TRUE
                                     IN  f[x] + Total(f, S \ {x})
NumCalls == Total(ncalls, DOMAIN ncalls)

\* Thread w takes request r; it serves one request at a time
Receive(w, r) ==
    /\ pc[w] = "idle"
    /\ NumCalls < MaxCalls
    /\ ncalls' = [ncalls EXCEPT ![IF r.op = "claim" THEN r.queue ELSE NULL] = @ + 1]

\* Thread w is inside its handler, at `at`
Enter(w, r, at, o) ==
    /\ Receive(w, r)
    /\ pc' = [pc EXCEPT ![w] = at]
    /\ req' = [req EXCEPT ![w] = r]
    /\ orm' = [orm EXCEPT ![w] = o]
    /\ UNCHANGED last

\* Thread w sends the response to request r and is free again
Reply(w, r, response) ==
    /\ pc' = [pc EXCEPT ![w] = "idle"]
    /\ req' = [req EXCEPT ![w] = NoReq]
    /\ orm' = [orm EXCEPT ![w] = NoOrm]
    /\ last' = [op |-> r.op, queue |-> r.queue, code |-> response.code,
                id |-> response.id, job |-> response.job]

\* UPDATE jobs SET status = 'processing', worker_id = :worker_id,
\*                 attempts = attempts + 1 WHERE id = :jid
ClaimedSql(row, worker_id) ==
    [row EXCEPT !.status = "processing", !.worker_id = worker_id,
                !.attempts = @ + 1]

\* job.status = "completed"; job.progress = 100; job.result = result
CompleteAssignedMutantNoProgress(row, result) ==
    [loaded |-> row,
     cur |-> [row EXCEPT !.status = "completed", !.result = result]]
CompleteAssigned(row, result) ==
    [loaded |-> row,
     cur |-> [row EXCEPT !.status = "completed", !.progress = 100, !.result = result]]

\* job.status = "failed"; job.result = {"error": error}
FailAssignedMutantRetry(row, error) ==
    [loaded |-> row,
     cur |-> [row EXCEPT !.status = "failed", !.result = ErrorDict(error),
                         !.attempts = @ + 1]]
FailAssignedMutantRequeue(row, error) ==
    [loaded |-> row,
     cur |-> [row EXCEPT !.status = "pending", !.result = ErrorDict(error)]]
FailAssignedMutantResetProgress(row, error) ==
    [loaded |-> row,
     cur |-> [row EXCEPT !.status = "failed", !.result = ErrorDict(error),
                         !.progress = 0]]
FailAssigned(row, error) ==
    [loaded |-> row,
     cur |-> [row EXCEPT !.status = "failed", !.result = ErrorDict(error)]]

----------------------------------------------------------------------------
(* The table the application finds at start-up (db.create_all() keeps the   *)
(* rows of an existing database): empty, or one row that an earlier POST    *)
(* /jobs inserted and that is still untouched or was claimed by a worker.   *)
InitTables ==
    {<<>>}
    \cup {<<Job(1, q, "p", 0)>> : q \in Queues}
    \cup {<<ClaimedSql(Job(1, q, "p", 0), w)>> : q \in Queues, w \in Workers}

Init ==
    /\ dialect \in Dialects
    /\ jobs \in InitTables
    /\ pc = [w \in Workers |-> "idle"]
    /\ req = [w \in Workers |-> NoReq]
    /\ orm = [w \in Workers |-> NoOrm]
    /\ last = NoResp
    /\ handed = EmptyBag
    /\ ncalls = [q \in Queues \cup {NULL} |-> 0]

----------------------------------------------------------------------------
(* POST /jobs.  A body without "queue" means queue "solicitacao", one of   *)
(* Queues.  session.add + commit is one INSERT in its own transaction.     *)
create_job(w) ==
    \E payload \in Opt({"p"}), queue \in Queues :
        LET r == [op |-> "create", queue |-> queue, job_id |-> 0, message |-> <<>>] IN
        /\ Receive(w, r)
        /\ IF payload = <<>>
           THEN /\ jobs' = jobs
                /\ Reply(w, r, Response(400, 0, NoJob))
           ELSE /\ Len(jobs) < MaxJobs
                /\ \E now \in {Now, Now + 1} :
                      jobs' = Append(jobs, Job(Len(jobs) + 1, queue, payload[1], now))
                /\ Reply(w, r, Response(201, Len(jobs) + 1, NoJob))
        /\ UNCHANGED <<dialect, handed>>

----------------------------------------------------------------------------
(* POST /jobs/claim, postgresql / cockroachdb branch *)

\* SELECT id ... FOR UPDATE SKIP LOCKED LIMIT 1; no row: 204
claim_selectMutantNoSkip(w) ==
    \E queue \in Queues :
        /\ dialect \in PgDialects
        /\ LET cand == Oldest(Pending(queue, {})) IN
           IF cand = {}
           THEN /\ Receive(w, [NoReq EXCEPT !.op = "claim", !.queue = queue])
                /\ Reply(w, [NoReq EXCEPT !.op = "claim", !.queue = queue],
                         Response(204, 0, NoJob))
           ELSE \E j \in cand :
                /\ ~Locked(j)
                /\ Enter(w, [NoReq EXCEPT !.op = "claim", !.queue = queue, !.job_id = j],
                         "claim_locked", NoOrm)
        /\ UNCHANGED <<dialect, jobs, handed>>
claim_select(w) ==
    \E queue \in Queues :
        /\ dialect \in PgDialects
        /\ LET cand == Oldest(Pending(queue, LockedRows)) IN
           IF cand = {}
           THEN /\ Receive(w, [NoReq EXCEPT !.op = "claim", !.queue = queue])
                /\ Reply(w, [NoReq EXCEPT !.op = "claim", !.queue = queue],
                         Response(204, 0, NoJob))
           ELSE \E j \in cand :
                Enter(w, [NoReq EXCEPT !.op = "claim", !.queue = queue, !.job_id = j],
                      "claim_locked", NoOrm)
        /\ UNCHANGED <<dialect, jobs, handed>>

\* The UPDATE stays inside the open transaction; Job.query.get(job_id) runs
\* on the session's connection and sees the committed row
claim_readback(w) ==
    /\ pc[w] = "claim_locked"
    /\ orm' = [orm EXCEPT ![w] = [loaded |-> jobs[req[w].job_id],
                                  cur |-> jobs[req[w].job_id]]]
    /\ pc' = [pc EXCEPT ![w] = "claim_loaded"]
    /\ UNCHANGED <<dialect, jobs, req, last, handed, ncalls>>

\* return jsonify(job.to_dict()) leaves the with block: the transaction commits
claim_commit(w) ==
    /\ pc[w] = "claim_loaded"
    /\ jobs' = [jobs EXCEPT ![req[w].job_id] = ClaimedSql(@, w)]
    /\ Reply(w, req[w], Response(200, 0, to_dict(orm[w].cur)))
    /\ handed' = handed (+) SetToBag({req[w].job_id})
    /\ UNCHANGED <<dialect, ncalls>>

----------------------------------------------------------------------------
(* POST /jobs/claim, fallback branch *)

\* job.status = "processing"; job.worker_id = worker_id; job.attempts += 1
ClaimedOrmMutantNoAttempts(row, worker_id) ==
    [row EXCEPT !.status = "processing", !.worker_id = worker_id]
ClaimedOrm(row, worker_id) ==
    [row EXCEPT !.status = "processing", !.worker_id = worker_id,
                !.attempts = @ + 1]

\* Job.query.filter_by(queue, status="pending").order_by(created_at).first()
claim_read(w) ==
    \E queue \in Queues :
        /\ dialect \notin PgDialects
        /\ LET cand == Oldest(Pending(queue, {})) IN
           IF cand = {}
           THEN /\ Receive(w, [NoReq EXCEPT !.op = "claim", !.queue = queue])
                /\ Reply(w, [NoReq EXCEPT !.op = "claim", !.queue = queue],
                         Response(204, 0, NoJob))
           ELSE \E j \in cand :
                Enter(w, [NoReq EXCEPT !.op = "claim", !.queue = queue, !.job_id = j],
                      "claim_dirty",
                      [loaded |-> jobs[j], cur |-> ClaimedOrm(jobs[j], w)])
        /\ UNCHANGED <<dialect, jobs, handed>>

\* db.session.commit()
claim_writeMutantGuarded(w) ==
    /\ pc[w] = "claim_dirty"
    /\ IF jobs[req[w].job_id].status = "pending"
       THEN /\ jobs' = [jobs EXCEPT ![req[w].job_id] =
                                        Flush(@, orm[w].loaded, orm[w].cur)]
            /\ pc' = [pc EXCEPT ![w] = "claim_written"]
            /\ UNCHANGED <<req, orm, last>>
       ELSE /\ jobs' = jobs
            /\ Reply(w, req[w], Response(204, 0, NoJob))
    /\ UNCHANGED <<dialect, handed, ncalls>>
claim_write(w) ==
    /\ pc[w] = "claim_dirty"
    /\ jobs' = [jobs EXCEPT ![req[w].job_id] = Flush(@, orm[w].loaded, orm[w].cur)]
    /\ pc' = [pc EXCEPT ![w] = "claim_written"]
    /\ UNCHANGED <<dialect, req, orm, last, handed, ncalls>>

\* The commit expired the object: job.id / job.to_dict() reload the row
claim_return(w) ==
    /\ pc[w] = "claim_written"
    /\ Reply(w, req[w], Response(200, 0, to_dict(jobs[req[w].job_id])))
    /\ handed' = handed (+) SetToBag({req[w].job_id})
    /\ UNCHANGED <<dialect, jobs, ncalls>>

----------------------------------------------------------------------------
(* The ORM handlers on one job id: Job.query.get, assignments, commit *)

\* Job.query.get(job_id); a missing row: 404
Get(w, op, job_id, message, after) ==
    LET r == [op |-> op, queue |-> NULL, job_id |-> job_id, message |-> message] IN
    /\ IF job_id \notin Ids
       THEN Receive(w, r) /\ Reply(w, r, Response(404, 0, NoJob))
       ELSE Enter(w, r, "dirty", after)
    /\ UNCHANGED <<dialect, jobs, handed>>

\* db.session.commit(): the UPDATE waits for a row lock held by an open claim
commit(w) ==
    /\ pc[w] = "dirty"
    /\ ~Locked(req[w].job_id)
    /\ jobs' = [jobs EXCEPT ![req[w].job_id] = Flush(@, orm[w].loaded, orm[w].cur)]
    /\ Reply(w, req[w], Response(200, 0, NoJob))
    /\ UNCHANGED <<dialect, handed, ncalls>>

\* logs.append({"ts": ..., "msg": message}); existing["logs"] = logs
AppendLog(result, message, now) ==
    [result EXCEPT !.isnull = FALSE, !.keys = @ \cup {"logs"},
                   !.logs = Append(@, [ts |-> now, msg |-> message])]

\* The assignments of job_progress on the loaded row.  `existing` is the
\* loaded dict itself when it is truthy: the append changes the loaded value
\* in place, so the value the flush compares against changes with it.
ProgressAssigned(row, progress, message, now) ==
    LET p == IF progress # <<>> THEN [row EXCEPT !.progress = progress[1]] ELSE row
    IN  IF message = <<>>
        THEN [loaded |-> row, cur |-> p]
        ELSE IF Truthy(row.result)
             THEN LET r == AppendLog(row.result, message[1], now)
                  IN  [loaded |-> [row EXCEPT !.result = r],
                       cur |-> [p EXCEPT !.result = r]]
             ELSE [loaded |-> row,
                   cur |-> [p EXCEPT !.result = AppendLog(EmptyDict, message[1], now)]]

job_progress(w) ==
    \E job_id \in 1..MaxJobs, progress \in Opt(ProgressInputs), message \in Opt(Messages) :
        Get(w, "progress", job_id, message,
            IF job_id \in Ids THEN ProgressAssigned(jobs[job_id], progress, message, Now)
                              ELSE NoOrm)

job_complete(w) ==
    \E job_id \in 1..MaxJobs, result \in ResultInputs :
        Get(w, "complete", job_id, <<>>,
            IF job_id \in Ids THEN CompleteAssigned(jobs[job_id], result) ELSE NoOrm)

job_fail(w) ==
    \E job_id \in 1..MaxJobs, error \in ErrorInputs :
        Get(w, "fail", job_id, <<>>,
            IF job_id \in Ids THEN FailAssigned(jobs[job_id], error) ELSE NoOrm)

----------------------------------------------------------------------------
Next ==
    \E w \in Workers :
        \/ create_job(w)
        \/ claim_select(w)
        \/ claim_readback(w)
        \/ claim_commit(w)
        \/ claim_read(w)
        \/ claim_write(w)
        \/ claim_return(w)
        \/ job_progress(w)
        \/ job_complete(w)
        \/ job_fail(w)
        \/ commit(w)

Spec == Init /\ [][Next]_vars

----------------------------------------------------------------------------
(* Workers racing for the pending jobs of a table: only POST /jobs/claim    *)
(* requests arrive.  The table holds up to MaxJobs rows that earlier        *)
(* requests left pending, processing, completed or failed.                  *)

RaceRows(id, now) ==
    LET fresh(q) == Job(id, q, "p", now)
        claimed(q, w) == ClaimedSql(fresh(q), w)
    IN  {fresh(q) : q \in Queues}
        \cup {claimed(q, w) : q \in Queues, w \in Workers}
        \cup {CompleteAssigned(claimed(q, w), OutDict).cur : q \in Queues, w \in Workers}
        \cup {FailAssigned(claimed(q, w), "x").cur : q \in Queues, w \in Workers}

RECURSIVE RaceTables(_)
RaceTables(n) ==
    IF n = 0 THEN {<<>>}
    ELSE LET shorter == RaceTables(n - 1)
             longest == {t \in shorter : Len(t) = n - 1}
             times(t) == IF n = 1 THEN {0}
                         ELSE {t[n - 1].created_at, t[n - 1].created_at + 1}
         IN  shorter \cup
             UNION {UNION {{Append(t, row) : row \in RaceRows(n, now)} : now \in times(t)}
                       : t \in longest}

RaceInit ==
    /\ dialect \in Dialects
    /\ jobs \in RaceTables(MaxJobs)
    /\ pc = [w \in Workers |-> "idle"]
    /\ req = [w \in Workers |-> NoReq]
    /\ orm = [w \in Workers |-> NoOrm]
    /\ last = NoResp
    /\ handed = EmptyBag
    /\ ncalls = [q \in Queues \cup {NULL} |-> 0]

RaceNext ==
    \E w \in Workers :
        \/ claim_select(w)
        \/ claim_readback(w)
        \/ claim_commit(w)
        \/ claim_read(w)
        \/ claim_write(w)
        \/ claim_return(w)

RaceSpec == RaceInit /\ [][RaceNext]_vars

----------------------------------------------------------------------------
(* Claims *)

Min(a, b) == IF a <= b THEN a ELSE b
Quiescent == \A w \in Workers : pc[w] = "idle"

\* Rows of queue q handed out in a 200 response of claim_job
Taken(q) == {j \in Ids : jobs[j].queue = q /\ BagIn(j, handed)}
\* Rows of queue q an open claim transaction has selected
Held(q) == {j \in Ids : jobs[j].queue = q /\ Locked(j)}
\* Rows of queue q whose status is pending
PendingIn(q) == {j \in Ids : jobs[j].queue = q /\ jobs[j].status = "pending"}
\* Rows of queue q that were pending when the race began
WerePending(q) == PendingIn(q) \cup Taken(q)

\* C1: on the lock-skip path, whatever the interleaving of the claim
\* transactions, no job is handed out twice, no two open transactions hold
\* the same job, and after W claim requests for queue q (answered or holding
\* a row) exactly min(N, W) distinct jobs of the N that were pending have
\* been taken, each ending in status processing.
C1_LockSkipExclusive ==
    dialect \in PgDialects =>
        /\ \A j \in Ids : CopiesIn(j, handed) <= 1
        /\ \A w1, w2 \in Workers :
              (w1 # w2 /\ pc[w1] \in PgStates /\ pc[w2] \in PgStates)
                  => req[w1].job_id # req[w2].job_id
        /\ \A q \in Queues :
              /\ Taken(q) \cap Held(q) = {}
              /\ Cardinality(Taken(q) \cup Held(q)) = Min(Cardinality(WerePending(q)), ncalls[q])
              /\ \A j \in Taken(q) : jobs[j].status = "processing"

\* Two requests for the same queue have been answered and two jobs taken
C1_Witness ==
    /\ dialect \in PgDialects
    /\ Quiescent
    /\ \E q \in Queues : ncalls[q] = 2 /\ Cardinality(Taken(q)) = 2


----------------------------------------------------------------------------
(* Steps of a thread, for the claims about single operations *)

ClaimStates == {"claim_locked", "claim_loaded", "claim_dirty", "claim_written"}
\* w receives a claim request and selects a row
ClaimSelects(w) == pc[w] = "idle" /\ pc'[w] \in {"claim_locked", "claim_dirty"}
\* w answers the claim request it is serving with 200
ClaimReturns(w) == pc[w] \in {"claim_loaded", "claim_written"} /\ pc'[w] = "idle"
\* w takes a step of the claim request it is serving
ClaimSteps(w) == pc[w] \in ClaimStates /\ pc'[w] # pc[w]
\* w commits the changes of the request `op` it is serving
Commits(w, op) == pc[w] = "dirty" /\ req[w].op = op /\ pc'[w] = "idle"
NoOtherClaim(w) == \A v \in Workers \ {w} : pc[v] \notin ClaimStates

\* C2: the record a successful claim returns is the updated one: status
\* processing, worker_id the claiming worker, attempts one more than the
\* attempts of the row the claim read.
C2_ReturnsUpdatedRecord ==
    [][\A w \in Workers :
          ClaimReturns(w) =>
              /\ last'.code = 200
              /\ last'.job.id = req[w].job_id
              /\ last'.job.status = "processing"
              /\ last'.job.worker_id = w
              /\ last'.job.attempts = orm[w].loaded.attempts + 1]_vars

\* C3: Complete and Fail on a job that is not processing are refused and
\* leave the table as it is.
C3_TerminalNeedsProcessing ==
    [][\A w \in Workers :
          ((Commits(w, "complete") \/ Commits(w, "fail"))
             /\ orm[w].loaded.status # "processing"
             /\ jobs[req[w].job_id].status # "processing")
              => (jobs' = jobs /\ last'.code # 200)]_vars

\* C4: the stored progress of every job is within 0..100.
C4_ProgressInRange ==
    \A j \in Ids : 0 <= jobs[j].progress /\ jobs[j].progress <= 100

\* C5: no job leaves completed or failed for another status, and no
\* processing job becomes pending again.
C5_StatusForwardOnly ==
    [][\A j \in Ids :
          /\ jobs[j].status \in {"completed", "failed"} => jobs'[j].status = jobs[j].status
          /\ jobs[j].status = "processing" => jobs'[j].status # "pending"]_vars

\* C6: attempts of a job changes only in the committing step of a claim of
\* that job, and then grows by exactly 1.
C6_AttemptsOnlyByClaim ==
    [][\A j \in Ids :
          jobs'[j].attempts # jobs[j].attempts =>
              /\ jobs'[j].attempts = jobs[j].attempts + 1
              /\ \E w \in Workers :
                    /\ pc[w] \in {"claim_loaded", "claim_dirty"}
                    /\ pc'[w] # pc[w]
                    /\ req[w].op = "claim"
                    /\ req[w].job_id = j]_vars

\* A job handed out in this run carries the attempt of its claim
C6_Witness ==
    \E j \in Ids : BagIn(j, handed) /\ jobs[j].attempts = 1 /\ last.op \in {"progress", "fail"}
                   /\ last.code = 200

\* C7: with no other claim in flight, the row a claim selects is a pending
\* row of the requested queue that no pending row of that queue is older
\* than, and it is the row the claim returns.
C7_OldestPendingFirst ==
    [][\A w \in Workers :
          /\ (ClaimSelects(w) /\ NoOtherClaim(w)) =>
                /\ req'[w].job_id \in PendingIn(req'[w].queue)
                /\ \A k \in PendingIn(req'[w].queue) :
                      jobs[req'[w].job_id].created_at <= jobs[k].created_at
          /\ ClaimReturns(w) => last'.job.id = req[w].job_id]_vars

\* A claim running alone has selected a row and left a newer pending row
C7_Witness ==
    \E w \in Workers :
        /\ pc[w] \in ClaimStates
        /\ \A v \in Workers \ {w} : pc[v] = "idle"
        /\ \E k \in PendingIn(req[w].queue) :
              jobs[k].created_at > jobs[req[w].job_id].created_at

\* C8: a claim request for a queue with no pending row is answered 204 at
\* once and changes no row.
C8_EmptyWhenNoPending ==
    [][\A q \in Queues :
          (ncalls'[q] # ncalls[q] /\ PendingIn(q) = {}) =>
              /\ last' = [op |-> "claim", queue |-> q, code |-> 204, id |-> 0, job |-> NoJob]
              /\ jobs' = jobs
              /\ pc' = pc]_vars

\* A claim was answered 204 for a queue whose job was handed out before
C8_Witness ==
    /\ last.op = "claim"
    /\ last.code = 204
    /\ \E j \in Ids : jobs[j].queue = last.queue /\ BagIn(j, handed)

\* C9: a step of a claim for queue q changes at most the row it selected,
\* a row of queue q, and the record it returns is that row's.
C9_ClaimScopedToQueue ==
    [][\A w \in Workers :
          /\ ClaimSelects(w) => jobs[req'[w].job_id].queue = req'[w].queue
          /\ ClaimSteps(w) =>
                /\ Len(jobs') = Len(jobs)
                /\ \A j \in Ids :
                      jobs'[j] # jobs[j] =>
                          (j = req[w].job_id /\ jobs[j].queue = req[w].queue)
          /\ ClaimReturns(w) =>
                (last'.job.id = req[w].job_id /\ last'.job.queue = req[w].queue)]_vars

\* A claim handed out one row while a row of another queue stayed pending
C9_Witness ==
    /\ last.op = "claim"
    /\ last.code = 200
    /\ \E j, k \in Ids :
          /\ BagIn(j, handed)
          /\ jobs[j].queue = last.queue
          /\ jobs[k].queue # last.queue
          /\ jobs[k].status = "pending"

\* C10: ReportProgress on a job that is not processing changes neither its
\* progress nor its result.
C10_ProgressNeedsProcessing ==
    [][\A w \in Workers :
          (Commits(w, "progress")
             /\ orm[w].loaded.status # "processing"
             /\ jobs[req[w].job_id].status # "processing")
              => /\ jobs'[req[w].job_id].progress = jobs[req[w].job_id].progress
                 /\ jobs'[req[w].job_id].result = jobs[req[w].job_id].result]_vars

\* C11: a ReportProgress with a message extends the stored log by exactly
\* that one entry at its end, and one without a message leaves the log as
\* it is, whatever other requests overlap it.
C11_LogAppendOnly ==
    [][\A w \in Workers :
          Commits(w, "progress") =>
              LET before == jobs[req[w].job_id].result.logs
                  after == jobs'[req[w].job_id].result.logs
              IN  IF req[w].message = <<>>
                  THEN after = before
                  ELSE /\ Len(after) = Len(before) + 1
                       /\ SubSeq(after, 1, Len(before)) = before
                       /\ after[Len(after)].msg = req[w].message[1]]_vars

\* C12: a Complete that reads a processing job, and whose job no other
\* request writes before it commits, leaves the job completed with progress
\* 100 and with the caller's result in place of the old one, logs included;
\* every other column stays.
C12_CompleteOverwrites ==
    [][\A w \in Workers :
          (/\ Commits(w, "complete")
           /\ orm[w].loaded.status = "processing"
           /\ jobs[req[w].job_id] = orm[w].loaded) =>
              /\ orm[w].cur.result \in ResultInputs
              /\ jobs'[req[w].job_id] =
                     [jobs[req[w].job_id] EXCEPT !.status = "completed",
                                                 !.progress = 100,
                                                 !.result = orm[w].cur.result]]_vars

\* a claimed job that a Complete has just turned into a completed one
C12_Witness ==
    /\ last.op = "complete"
    /\ last.code = 200
    /\ \E j \in Ids : /\ jobs[j].status = "completed"
                      /\ jobs[j].worker_id # NULL
                      /\ jobs[j].progress = 100
                      /\ jobs[j].result = OutDict

\* C13: a Fail on a processing job leaves it failed with {"error": error} as
\* its result, and keeps its progress, attempts, worker_id, queue, payload,
\* id and created_at.
C13_FailKeepsRest ==
    [][\A w \in Workers :
          (/\ Commits(w, "fail")
           /\ orm[w].loaded.status = "processing"
           /\ jobs[req[w].job_id].status = "processing") =>
              LET before == jobs[req[w].job_id]
                  after == jobs'[req[w].job_id]
              IN  /\ after.status = "failed"
                  /\ after.result.keys = {"error"}
                  /\ after.result.error \in ErrorInputs
                  /\ after.result.logs = <<>>
                  /\ \A c \in Columns \ {"status", "result"} :
                        after[c] = before[c]]_vars

\* a failed job that keeps the progress its worker had reported
C13_Witness ==
    /\ last.op = "fail"
    /\ last.code = 200
    /\ \E j \in Ids : /\ jobs[j].status = "failed"
                      /\ jobs[j].progress = 40
                      /\ jobs[j].attempts = 1
                      /\ jobs[j].result = ErrorDict("x")

\* C14: a job that is not pending never becomes pending again; a processing
\* job leaves processing only in the commit of a Complete or a Fail for that
\* job; and the row a claim selects is pending when it is selected, so a
\* claim that starts after a job left pending never takes it.
C14_NoRequeue ==
    [][\A j \in Ids :
          /\ jobs[j].status # "pending" => jobs'[j].status # "pending"
          /\ (jobs[j].status = "processing" /\ jobs'[j].status # "processing") =>
                 \E w \in Workers : /\ Commits(w, "complete") \/ Commits(w, "fail")
                                    /\ req[w].job_id = j
          /\ \A w \in Workers :
                 (ClaimSelects(w) /\ req'[w].job_id = j) =>
                     jobs[j].status = "pending"]_vars

\* a claim on the queue of a processing job has just come back empty
C14_Witness ==
    /\ last.op = "claim"
    /\ last.code = 204
    /\ \E j \in Ids : jobs[j].queue = last.queue /\ jobs[j].status = "processing"

\* C15: on the locking branch a claim never waits for another claim: an
\* idle thread can take a claim for any queue and get its row or its 204 at
\* once, whatever rows other claims hold locked, and a claim in flight can
\* always take its next step, so it ends after its three steps.
C15_ClaimNeverWaits ==
    dialect \in PgDialects =>
        \A w \in Workers :
            /\ (pc[w] = "idle" /\ NumCalls < MaxCalls) =>
                   \A q \in Queues :
                       ENABLED (claim_select(w) /\ ncalls'[q] = ncalls[q] + 1)
            /\ pc[w] = "claim_locked" => ENABLED claim_readback(w)
            /\ pc[w] = "claim_loaded" => ENABLED claim_commit(w)

\* a thread is free to claim from a queue whose oldest pending row another
\* claim holds locked
C15_Witness ==
    /\ dialect \in PgDialects
    /\ NumCalls < MaxCalls
    /\ \E w, v \in Workers :
          /\ pc[w] = "idle"
          /\ pc[v] \in PgStates
          /\ req[v].job_id \in Oldest(PendingIn(req[v].queue))

\* A step in which some thread serves POST /jobs from request to response
Creates == ncalls'[NULL] # ncalls[NULL] /\ pc' = pc /\ last'.op = "create"

\* C16: a CreateJob answers 201 or 400.  With 201 the table has exactly one
\* more row, every row it had is unchanged, and the new row has an id above
\* every earlier id (the id in the response), a payload, the requested queue,
\* status pending, attempts 0, progress 0, no worker_id and no result.  With
\* 400, the answer to a request without payload, the table is unchanged.
C16_CreateAddsOnePending ==
    [][Creates =>
          /\ last'.code \in {201, 400}
          /\ last'.code = 400 => jobs' = jobs
          /\ last'.code = 201 =>
                /\ Len(jobs') = Len(jobs) + 1
                /\ SubSeq(jobs', 1, Len(jobs)) = jobs
                /\ LET new == jobs'[Len(jobs')]
                   IN  /\ new.id = last'.id
                       /\ \A j \in Ids : new.id > jobs[j].id
                       /\ new.queue = last'.queue
                       /\ new.payload # NULL
                       /\ new.status = "pending"
                       /\ new.attempts = 0
                       /\ new.progress = 0
                       /\ new.worker_id = NULL
                       /\ new.result = NoResult]_vars

\* a job created next to a job that a worker holds
C16_Witness ==
    /\ last.op = "create"
    /\ last.code = 201
    /\ last.id = 2
    /\ Len(jobs) = 2
    /\ jobs[1].status = "processing"
    /\ jobs[2].status = "pending"

\* C17: on the fallback branch nothing stands between the read of a pending
\* row and the write of the claim: a claim that has read a row always writes
\* status processing, its own worker_id and attempts one above the value it
\* read, whatever the row has become since, and then returns that row with
\* 200.  Two claims that both read the row before either wrote therefore
\* both return it (the witness).
C17_FallbackClaimUnguarded ==
    [][\A w \in Workers :
          /\ (pc[w] = "claim_dirty" /\ pc'[w] # "claim_dirty") =>
                 /\ pc'[w] = "claim_written"
                 /\ jobs'[req[w].job_id].status = "processing"
                 /\ jobs'[req[w].job_id].worker_id = w
                 /\ jobs'[req[w].job_id].attempts = orm[w].loaded.attempts + 1
          /\ (pc[w] = "claim_written" /\ pc'[w] # "claim_written") =>
                 /\ last'.code = 200
                 /\ last'.job.id = req[w].job_id
                 /\ CopiesIn(req[w].job_id, handed') =
                        CopiesIn(req[w].job_id, handed) + 1]_vars

\* the double claim: one job returned by two claims, its attempts counted once
C17_Witness ==
    /\ dialect \notin PgDialects
    /\ Quiescent
    /\ \E j \in Ids : /\ CopiesIn(j, handed) = 2
                      /\ jobs[j].status = "processing"
                      /\ jobs[j].attempts = 1

\* C18: the commit of a ReportProgress, Complete or Fail sent by a worker
\* other than the one recorded in the job's worker_id leaves the job as it
\* was.
C18_OnlyClaimantWrites ==
    [][\A w \in Workers :
          (/\ Commits(w, "progress") \/ Commits(w, "complete") \/ Commits(w, "fail")
           /\ jobs[req[w].job_id].worker_id # w) =>
              jobs'[req[w].job_id] = jobs[req[w].job_id]]_vars

\* C19: every completed job has progress 100.
C19_CompletedIsFull ==
    \A j \in Ids : jobs[j].status = "completed" => jobs[j].progress = 100

====
